---- MODULE Spec2Model ----
(***************************************************************************)
(* A model of the fhq-treap crate (src/src/lib.rs): TreapMap, its          *)
(* split/merge core, search and rank helpers, the bulk builders and the    *)
(* rank-addressed iterator.                                                *)
(*                                                                         *)
(* A TreapMap<K, V>(Option<Box<NodeData<K, V>>>) is a sequence of length   *)
(* 0 (None) or 1 (Some(node)); a node is a record with the fields of       *)
(* NodeData.  An Option<T> result is likewise <<>> or <<t>>.  A key/value  *)
(* pair is <<k, v>>.  rand::random() is a choice among Weights.            *)
(***************************************************************************)
EXTENDS Integers, Sequences, FiniteSets, TLC

\* ---------------------------------------------------------------- bounds
MaxKey == 3
NumValues == 2
MaxWeight == 1
MaxLen == 3
MaxSize == 3

Keys == 1..MaxKey
Values == 1..NumValues
Weights == 0..MaxWeight

\* The value () of a TreapSet<K>(TreapMap<K, ()>).
Unit == <<>>

\* ------------------------------------------------------------- NodeData
Nil == <<>>

Some(x) == <<x>>

NodeData_new(key, value, w) ==
    [left |-> Nil, right |-> Nil, size |-> 1, key |-> key, value |-> value,
     weight |-> w]

len(t) == IF t = Nil THEN 0 ELSE t[1].size

maintain(x) == [x EXCEPT !.size = len(x.left) + len(x.right) + 1]

\* ------------------------------------------------------ split / merge
RECURSIVE split_lt(_, _)
split_lt_mut_le(t, key) ==
    IF t = Nil THEN <<Nil, Nil>>
    ELSE LET x == t[1] IN
         IF key < x.key
         THEN LET lr == split_lt(x.left, key) IN
              <<lr[1], Some(maintain([x EXCEPT !.left = lr[2]]))>>
         ELSE LET lr == split_lt(x.right, key) IN
              <<Some(maintain([x EXCEPT !.right = lr[1]])), lr[2]>>

split_lt(t, key) ==
    IF t = Nil THEN <<Nil, Nil>>
    ELSE LET x == t[1] IN
         IF key <= x.key
         THEN LET lr == split_lt(x.left, key) IN
              <<lr[1], Some(maintain([x EXCEPT !.left = lr[2]]))>>
         ELSE LET lr == split_lt(x.right, key) IN
              <<Some(maintain([x EXCEPT !.right = lr[1]])), lr[2]>>

RECURSIVE split_le(_, _)
split_le(t, key) ==
    IF t = Nil THEN <<Nil, Nil>>
    ELSE LET x == t[1] IN
         IF key < x.key
         THEN LET lr == split_le(x.left, key) IN
              <<lr[1], Some(maintain([x EXCEPT !.left = lr[2]]))>>
         ELSE LET lr == split_le(x.right, key) IN
              <<Some(maintain([x EXCEPT !.right = lr[1]])), lr[2]>>

RECURSIVE split_n(_, _)
split_n_mut_lt(t, n) ==
    IF t = Nil THEN <<Nil, Nil>>
    ELSE LET x == t[1] IN
         IF n >= x.size THEN <<Some(x), Nil>>
         ELSE LET ls == len(x.left) IN
              IF n < ls
              THEN LET lr == split_n(x.left, n) IN
                   <<lr[1], Some(maintain([x EXCEPT !.left = lr[2]]))>>
              ELSE LET lr == split_n(x.right, n - ls) IN
                   <<Some(maintain([x EXCEPT !.right = lr[1]])), lr[2]>>

split_n(t, n) ==
    IF t = Nil THEN <<Nil, Nil>>
    ELSE LET x == t[1] IN
         IF n >= x.size THEN <<Some(x), Nil>>
         ELSE LET ls == len(x.left) IN
              IF n <= ls
              THEN LET lr == split_n(x.left, n) IN
                   <<lr[1], Some(maintain([x EXCEPT !.left = lr[2]]))>>
              ELSE LET lr == split_n(x.right, n - ls - 1) IN
                   <<Some(maintain([x EXCEPT !.right = lr[1]])), lr[2]>>

RECURSIVE merge(_, _)
merge_mut_gt(tx, ty) ==
    IF tx = Nil THEN ty
    ELSE IF ty = Nil THEN tx
    ELSE LET x == tx[1]
             y == ty[1] IN
         IF x.weight > y.weight
         THEN Some(maintain([x EXCEPT !.right = merge(x.right, ty)]))
         ELSE Some(maintain([y EXCEPT !.left = merge(tx, y.left)]))

merge_mut_nomaintain(tx, ty) ==
    IF tx = Nil THEN ty
    ELSE IF ty = Nil THEN tx
    ELSE LET x == tx[1]
             y == ty[1] IN
         IF x.weight < y.weight
         THEN Some(maintain([x EXCEPT !.right = merge(x.right, ty)]))
         ELSE Some([y EXCEPT !.left = merge(tx, y.left)])

merge(tx, ty) ==
    IF tx = Nil THEN ty
    ELSE IF ty = Nil THEN tx
    ELSE LET x == tx[1]
             y == ty[1] IN
         IF x.weight < y.weight
         THEN Some(maintain([x EXCEPT !.right = merge(x.right, ty)]))
         ELSE Some(maintain([y EXCEPT !.left = merge(tx, y.left)]))

\* ------------------------------------------------------- search / rank
RECURSIVE get_kv(_, _)
get_kv(t, key) ==
    IF t = Nil THEN Nil
    ELSE LET node == t[1] IN
         IF key < node.key THEN get_kv(node.left, key)
         ELSE IF key = node.key THEN Some(<<node.key, node.value>>)
         ELSE get_kv(node.right, key)

get(t, key) ==
    LET it == get_kv(t, key) IN IF it = Nil THEN Nil ELSE Some(it[1][2])

RECURSIVE min(_)
min(t) ==
    IF t = Nil THEN Nil
    ELSE LET x == t[1] IN
         IF x.left # Nil THEN min(x.left) ELSE Some(<<x.key, x.value>>)

RECURSIVE max(_)
max(t) ==
    IF t = Nil THEN Nil
    ELSE LET x == t[1] IN
         IF x.right # Nil THEN max(x.right) ELSE Some(<<x.key, x.value>>)

\* min_mut followed by std::mem::replace(v, value): the tree with the value
\* of its leftmost node replaced.
RECURSIVE replace_min(_, _)
replace_min(t, value) ==
    LET x == t[1] IN
    IF x.left # Nil
    THEN Some([x EXCEPT !.left = replace_min(x.left, value)])
    ELSE Some([x EXCEPT !.value = value])

\* insert returns <<the new tree, the returned Option<V>>>.
insert_mut_always_new(t, key, value, w) ==
    LET lr == split_lt(t, key) IN
    <<merge(merge(lr[1], Some(NodeData_new(key, value, w))), lr[2]), Nil>>

insert(t, key, value, w) ==
    LET lr == split_lt(t, key)
        l == lr[1]
        r == lr[2]
        m == min(r)
    IN  IF m # Nil /\ m[1][1] = key
        THEN <<merge(l, replace_min(r, value)), Some(m[1][2])>>
        ELSE <<merge(merge(l, Some(NodeData_new(key, value, w))), r), Nil>>

\* remove returns <<the new tree, the returned Option<V>>>.
remove(t, key) ==
    LET lr == split_lt(t, key)
        mr == split_le(lr[2], key)
        m == mr[1]
    IN  <<merge(lr[1], mr[2]), IF m # Nil THEN Some(m[1].value) ELSE Nil>>

RECURSIVE num_lt_from(_, _, _)
num_lt_from(t, key, r) ==
    IF t = Nil THEN r
    ELSE LET node == t[1] IN
         IF key <= node.key THEN num_lt_from(node.left, key, r)
         ELSE num_lt_from(node.right, key, r + len(node.left) + 1)

RECURSIVE num_le_from(_, _, _)
num_le_from(t, key, r) ==
    IF t = Nil THEN r
    ELSE LET node == t[1] IN
         IF key < node.key THEN num_le_from(node.left, key, r)
         ELSE num_le_from(node.right, key, r + len(node.left) + 1)

num_le(t, key) == num_le_from(t, key, 0)

num_lt_mut_le(t, key) == num_le_from(t, key, 0)

num_lt(t, key) == num_lt_from(t, key, 0)

\* The descent loop of nth_kv; n is the 1-based residual rank.  Reaching an
\* empty subtree is the unreachable!() of the source: the call panics, which
\* is neither None nor Some(_).
Unreachable == <<"unreachable!()", "unreachable!()">>

RECURSIVE nth_descend(_, _)
nth_descend(t, n) ==
    IF t = Nil THEN Unreachable
    ELSE LET node == t[1]
             ls == len(node.left) IN
         IF n <= ls THEN nth_descend(node.left, n)
         ELSE IF n - (ls + 1) = 0 THEN Some(<<node.key, node.value>>)
         ELSE nth_descend(node.right, n - (ls + 1))

nth_kv(t, n) == IF n >= len(t) THEN Nil ELSE nth_descend(t, n + 1)

\* ------------------------------------------------------------ iterator
\* A reference &NodeData held by the iterator's stack is the path from the
\* root to that node ("L" / "R" steps): two references are std::ptr::eq
\* exactly when their paths are equal.
RECURSIVE At(_, _)
At(t, path) ==
    IF path = <<>> THEN t[1]
    ELSE IF Head(path) = "L" THEN At(t[1].left, Tail(path))
    ELSE At(t[1].right, Tail(path))

Front(s) == SubSeq(s, 1, Len(s) - 1)

Last(s) == s[Len(s)]

Min2(a, b) == IF a <= b THEN a ELSE b

EmptyIter == [stack |-> <<>>, remaining |-> 0, rev |-> FALSE]

\* The descent loop of slice: x is the subtree at `path`.
RECURSIVE slice_descend(_, _, _, _)
slice_descend(x, path, n, stack) ==
    IF x = Nil THEN Unreachable
    ELSE LET node == x[1]
             pushed == Append(stack, path)
             ls == len(node.left) IN
         IF n <= ls
         THEN slice_descend(node.left, Append(path, "L"), n, pushed)
         ELSE IF n - (ls + 1) = 0 THEN pushed
         ELSE slice_descend(node.right, Append(path, "R"), n - (ls + 1), pushed)

slice(t, start, end) ==
    LET l == start
        r == Min2(end, len(t)) IN
    IF l >= r THEN EmptyIter
    ELSE [stack |-> slice_descend(t, <<>>, l + 1, <<>>),
          remaining |-> r - l, rev |-> FALSE]

rev_slice_mut_fwd(t, start, end) ==
    LET l == start
        r == Min2(end, len(t)) IN
    IF l >= r THEN EmptyIter
    ELSE [slice(t, r - 1, r) EXCEPT !.remaining = r - l]

rev_slice(t, start, end) ==
    LET l == start
        r == Min2(end, len(t)) IN
    IF l >= r THEN EmptyIter
    ELSE [slice(t, r - 1, r) EXCEPT !.remaining = r - l, !.rev = TRUE]

\* The inner `loop` of move_next / move_prev: push the node at `path` and
\* the spine below it on side `dir`.
RECURSIVE push_spine(_, _, _, _)
push_spine(t, stack, path, dir) ==
    LET node == At(t, path)
        pushed == Append(stack, path)
        child == IF dir = "L" THEN node.left ELSE node.right IN
    IF child # Nil THEN push_spine(t, pushed, Append(path, dir), dir)
    ELSE pushed

\* The `while let Some(parent) = self.stack.pop()` loop: pop the ancestors
\* whose `dir` child is `last`.
RECURSIVE pop_while_child(_, _, _, _)
pop_while_child(t, stack, last, dir) ==
    IF stack = <<>> THEN stack
    ELSE LET parent == Last(stack)
             node == At(t, parent)
             child == IF dir = "L" THEN node.left ELSE node.right IN
         IF child # Nil /\ Append(parent, dir) = last
         THEN pop_while_child(t, Front(stack), parent, dir)
         ELSE stack

move_next_mut_noclimb(t, stack) ==
    IF stack = <<>> THEN stack
    ELSE LET last == Last(stack) IN
         IF At(t, last).right # Nil
         THEN push_spine(t, stack, Append(last, "R"), "L")
         ELSE Front(stack)

move_next(t, stack) ==
    IF stack = <<>> THEN stack
    ELSE LET last == Last(stack) IN
         IF At(t, last).right # Nil
         THEN push_spine(t, stack, Append(last, "R"), "L")
         ELSE pop_while_child(t, Front(stack), last, "R")

move_prev(t, stack) ==
    IF stack = <<>> THEN stack
    ELSE LET last == Last(stack) IN
         IF At(t, last).left # Nil
         THEN push_spine(t, stack, Append(last, "L"), "R")
         ELSE pop_while_child(t, Front(stack), last, "L")

\* Iterator::next returns <<the iterator afterwards, the Option<item>>>.
next(t, it) ==
    IF it.remaining = 0 THEN <<it, Nil>>
    ELSE LET res == IF it.stack = <<>> THEN Nil
                    ELSE LET top == At(t, Last(it.stack)) IN
                         Some(<<top.key, top.value>>)
             moved == IF it.rev THEN move_prev(t, it.stack)
                      ELSE move_next(t, it.stack) IN
         <<[it EXCEPT !.remaining = it.remaining - 1, !.stack = moved], res>>

\* ------------------------------------------------------- bulk builders
\* The `while let Some(mut top) = stack.pop()` loop of the builder; returns
\* <<stack, node>>.
RECURSIVE build_pop(_, _)
build_pop(stack, node) ==
    IF stack = <<>> THEN <<stack, node>>
    ELSE LET top == Last(stack) IN
         IF node.weight < top.weight
         THEN build_pop(Front(stack),
                        [node EXCEPT !.left =
                            Some(maintain([top EXCEPT !.right = node.left]))])
         ELSE <<stack, node>>

\* The `for (key, value) in iter` loop, from item i on; ws[i] is the weight
\* rand::random() gives the i-th node.
RECURSIVE build_loop(_, _, _, _)
build_loop(items, ws, i, stack) ==
    IF i > Len(items) THEN stack
    ELSE LET fresh == NodeData_new(items[i][1], items[i][2], ws[i])
             sn == build_pop(stack, fresh) IN
         build_loop(items, ws, i + 1, Append(sn[1], maintain(sn[2])))

\* The final `while let Some(top) = stack.pop()` loop.
RECURSIVE build_fold(_)
build_fold(stack) ==
    IF stack = <<>> THEN Nil
    ELSE LET top == Some(Last(stack))
             rest == Front(stack) IN
         IF rest = <<>> THEN top
         ELSE build_fold(Append(Front(rest),
                                maintain([Last(rest) EXCEPT !.right = top])))

from_unique_sorted_iter(items, ws) == build_fold(build_loop(items, ws, 1, <<>>))

\* DedupSortedIter::next, collected: the items the adaptor yields.
RECURSIVE skip_equal(_, _)
skip_equal(key, s) ==
    IF s = <<>> THEN s
    ELSE IF key # s[1][1] THEN s
    ELSE skip_equal(key, Tail(s))

RECURSIVE DedupSortedIter(_)
DedupSortedIter_mut_last(s) ==
    IF s = <<>> THEN <<>>
    ELSE IF Len(s) >= 2 /\ s[1][1] = s[2][1] THEN DedupSortedIter(Tail(s))
    ELSE <<s[1]>> \o DedupSortedIter(Tail(s))

DedupSortedIter(s) ==
    IF s = <<>> THEN <<>>
    ELSE <<s[1]>> \o DedupSortedIter(skip_equal(s[1][1], Tail(s)))

from_sorted_iter(items, ws) == from_unique_sorted_iter(DedupSortedIter(items), ws)

\* vec.sort_by(|x, y| x.0.cmp(&y.0)): a stable sort by key.
RECURSIVE sort_insert(_, _)
sort_insert(sorted, x) ==
    IF sorted = <<>> THEN <<x>>
    ELSE IF Last(sorted)[1] <= x[1] THEN Append(sorted, x)
    ELSE Append(sort_insert(Front(sorted), x), Last(sorted))

RECURSIVE sort_by_key(_)
sort_by_key(vec) ==
    IF vec = <<>> THEN vec
    ELSE sort_insert(sort_by_key(Front(vec)), Last(vec))

from_iter(items, ws) ==
    LET vec == items IN
    IF vec = <<>> THEN Nil
    ELSE from_unique_sorted_iter(sort_by_key(vec), ws)

\* ---------------------------------------------------------------- state
VARIABLES
    map,       \* the program's TreapMap
    aux,       \* a second TreapMap: the right half of a split, awaiting merge
    op,        \* the last call that made or changed the map; a builder's input
    inserted,  \* the keys passed to insert so far
    iter,      \* Option<Iter>: the iterator currently borrowing `map`
    range,     \* Option: the start, end and direction the live iterator was asked for
    out        \* what the calls of Iterator::next returned so far, in order

vars == <<map, aux, op, inserted, iter, range, out>>

Call(name, input) == [name |-> name, input |-> input]

\* A call taking the map by value or by &mut needs the iterator's shared
\* borrow to have ended.
NoBorrow == iter = Nil /\ UNCHANGED <<iter, range, out>>

Asked(start, end, rev) == Some([start |-> start, end |-> end, rev |-> rev])

\* The inputs of the builders: key sequences of length <= MaxLen.  The
\* builders never inspect a value: the i-th pair of a map's input carries
\* the value i, which tells the occurrences of a key apart; a set's carries ().
KeySeqs == UNION {[1..l -> Keys] : l \in 0..MaxLen}

Items(ks) == [i \in 1..Len(ks) |-> <<ks[i], i>>]

UnitItems(ks) == [i \in 1..Len(ks) |-> <<ks[i], Unit>>]

IsSorted(ks) == \A i \in 1..(Len(ks) - 1) : ks[i] <= ks[i + 1]

IsStrictlySorted(ks) == \A i \in 1..(Len(ks) - 1) : ks[i] < ks[i + 1]

WeightSeqs(l) == [1..l -> Weights]

\* merge's unchecked precondition: every key of x is below every key of y.
MergeOrdered(x, y) ==
    IF x = Nil \/ y = Nil THEN TRUE ELSE max(x)[1][1] < min(y)[1][1]

Init ==
    /\ map = Nil
    /\ aux = Nil
    /\ op = Call("new", <<>>)
    /\ inserted = {}
    /\ iter = Nil
    /\ range = Nil
    /\ out = <<>>

\* ------------------------------------------------------------- actions
Insert(key, value, w) ==
    LET r == insert(map, key, value, w) IN
    /\ len(r[1]) + len(aux) <= MaxSize
    /\ map' = r[1]
    /\ op' = Call("insert", <<>>)
    /\ inserted' = inserted \cup {key}
    /\ NoBorrow
    /\ UNCHANGED aux

Remove(key) ==
    LET r == remove(map, key) IN
    /\ map' = r[1]
    /\ op' = Call("remove", <<>>)
    /\ NoBorrow
    /\ UNCHANGED <<aux, inserted>>

SplitLt(key) ==
    LET lr == split_lt(map, key) IN
    /\ map' = lr[1]
    /\ aux' = lr[2]
    /\ op' = Call("split_lt", <<>>)
    /\ NoBorrow
    /\ UNCHANGED inserted

SplitLe(key) ==
    LET lr == split_le(map, key) IN
    /\ map' = lr[1]
    /\ aux' = lr[2]
    /\ op' = Call("split_le", <<>>)
    /\ NoBorrow
    /\ UNCHANGED inserted

SplitN(n) ==
    LET lr == split_n(map, n) IN
    /\ map' = lr[1]
    /\ aux' = lr[2]
    /\ op' = Call("split_n", <<>>)
    /\ NoBorrow
    /\ UNCHANGED inserted

\* TreapMap::merge(map, aux), or merge(aux, map) when `flip`.
Merge(flip) ==
    /\ aux # Nil
    /\ IF flip THEN MergeOrdered(aux, map) ELSE MergeOrdered(map, aux)
    /\ map' = IF flip THEN merge(aux, map) ELSE merge(map, aux)
    /\ aux' = Nil
    /\ op' = Call("merge", <<>>)
    /\ NoBorrow
    /\ UNCHANGED inserted

\* The builders are constructors: they make the program's map, in place of
\* TreapMap::new().
Fresh == op.name = "new"

FromUniqueSortedIter(items, ws) ==
    /\ Fresh
    /\ map' = from_unique_sorted_iter(items, ws)
    /\ op' = Call("from_unique_sorted_iter", items)
    /\ NoBorrow
    /\ UNCHANGED <<aux, inserted>>

FromSortedIter(items, ws) ==
    /\ Fresh
    /\ map' = from_sorted_iter(items, ws)
    /\ op' = Call("from_sorted_iter", items)
    /\ NoBorrow
    /\ UNCHANGED <<aux, inserted>>

FromIter(items, ws) ==
    /\ Fresh
    /\ map' = from_iter(items, ws)
    /\ op' = Call("from_iter", items)
    /\ NoBorrow
    /\ UNCHANGED <<aux, inserted>>

Slice(start, end) ==
    /\ iter = Nil
    /\ iter' = Some(slice(map, start, end))
    /\ range' = Asked(start, end, FALSE)
    /\ out' = <<>>
    /\ UNCHANGED <<map, aux, op, inserted>>

RevSlice(start, end) ==
    /\ iter = Nil
    /\ iter' = Some(rev_slice(map, start, end))
    /\ range' = Asked(start, end, TRUE)
    /\ out' = <<>>
    /\ UNCHANGED <<map, aux, op, inserted>>

\* One call of Iterator::next; the caller stops at the first None.
IterNext ==
    /\ iter # Nil
    /\ IF out = <<>> THEN TRUE ELSE Last(out) # Nil
    /\ LET r == next(map, iter[1]) IN
       /\ iter' = Some(r[1])
       /\ out' = Append(out, r[2])
    /\ UNCHANGED <<map, aux, op, inserted, range>>

\* The iterator goes out of scope.
IterDrop ==
    /\ iter # Nil
    /\ iter' = Nil
    /\ range' = Nil
    /\ out' = <<>>
    /\ UNCHANGED <<map, aux, op, inserted>>

\* ------------------------------------------------------ specifications
Ranks == 0..MaxSize

DoInsert == \E k \in Keys, v \in Values, w \in Weights : Insert(k, v, w)
DoSetInsert == \E k \in Keys, w \in Weights : Insert(k, Unit, w)
DoRemove == \E k \in Keys : Remove(k)
DoSplitLt == \E k \in Keys : SplitLt(k)
DoSplitLe == \E k \in Keys : SplitLe(k)
DoSplitN == \E n \in Ranks : SplitN(n)
DoMerge == \E flip \in BOOLEAN : Merge(flip)
DoFromUniqueSortedIter ==
    Fresh /\ \E ks \in {s \in KeySeqs : IsStrictlySorted(s)} :
        \E ws \in WeightSeqs(Len(ks)) : FromUniqueSortedIter(Items(ks), ws)
DoFromSortedIter ==
    Fresh /\ \E ks \in {s \in KeySeqs : IsSorted(s)} :
        \E ws \in WeightSeqs(Len(ks)) : FromSortedIter(Items(ks), ws)
DoFromIter ==
    Fresh /\ \E ks \in KeySeqs : \E ws \in WeightSeqs(Len(ks)) : FromIter(Items(ks), ws)
DoSetFromUniqueSortedIter ==
    Fresh /\ \E ks \in {s \in KeySeqs : IsStrictlySorted(s)} :
        \E ws \in WeightSeqs(Len(ks)) : FromUniqueSortedIter(UnitItems(ks), ws)
DoSetFromSortedIter ==
    Fresh /\ \E ks \in {s \in KeySeqs : IsSorted(s)} :
        \E ws \in WeightSeqs(Len(ks)) : FromSortedIter(UnitItems(ks), ws)
DoSlice == \E s \in Ranks, e \in Ranks : Slice(s, e)
DoRevSlice == \E s \in Ranks, e \in Ranks : RevSlice(s, e)

Next ==
    \/ DoInsert
    \/ DoRemove
    \/ DoSplitLt
    \/ DoSplitLe
    \/ DoSplitN
    \/ DoMerge
    \/ DoFromUniqueSortedIter
    \/ DoFromSortedIter
    \/ DoFromIter
    \/ DoSlice
    \/ DoRevSlice
    \/ IterNext
    \/ IterDrop

Spec == Init /\ [][Next]_vars

\* Only insert, from the empty map.
NextInsert == DoInsert

SpecInsert == Init /\ [][NextInsert]_vars

\* insert and remove, from the empty map.
NextMap == DoInsert \/ DoRemove

SpecMap == Init /\ [][NextMap]_vars

\* The three bulk constructors.
NextBuild == DoFromUniqueSortedIter \/ DoFromSortedIter \/ DoFromIter

SpecBuild == Init /\ [][NextBuild]_vars

\* A TreapSet (a map of () values): insert and remove, from the empty set or
\* from one built by from_sorted_iter.
NextRank == DoSetInsert \/ DoRemove \/ DoSetFromSortedIter

SpecRank == Init /\ [][NextRank]_vars

\* A TreapSet under every way of making a tree.
NextTree ==
    \/ DoSetInsert
    \/ DoRemove
    \/ DoSplitLt
    \/ DoSplitLe
    \/ DoSplitN
    \/ DoMerge
    \/ DoSetFromUniqueSortedIter
    \/ DoSetFromSortedIter

SpecTree == Init /\ [][NextTree]_vars

\* Iteration over a TreapSet made by the builder and insert.
NextIter ==
    \/ DoSetInsert
    \/ DoSetFromUniqueSortedIter
    \/ DoSlice
    \/ DoRevSlice
    \/ IterNext
    \/ IterDrop

SpecIter == Init /\ [][NextIter]_vars

\* --------------------------------------------------------------- claims
\* The in-order sequence of key/value pairs of a tree.
RECURSIVE InOrder(_)
InOrder(t) ==
    IF t = Nil THEN <<>>
    ELSE InOrder(t[1].left) \o <<<<t[1].key, t[1].value>>>> \o InOrder(t[1].right)

\* The ascending sequence of a finite set of integers.
RECURSIVE Ascending(_)
Ascending(S) ==
    IF S = {} THEN <<>>
    ELSE LET m == CHOOSE x \in S : \A y \in S : x <= y IN
         <<m>> \o Ascending(S \ {m})

KeysOf(items) == {items[i][1] : i \in DOMAIN items}

FirstIndex(items, k) ==
    CHOOSE i \in DOMAIN items :
        items[i][1] = k /\ \A j \in 1..(i - 1) : items[j][1] # k

\* Each distinct key of `items` once, in ascending order, with the value of
\* its first occurrence.
FirstWins(items) ==
    LET ks == Ascending(KeysOf(items)) IN
    [i \in 1..Len(ks) |-> <<ks[i], items[FirstIndex(items, ks[i])][2]>>]

RECURSIVE SizesOK(_)
SizesOK(t) ==
    IF t = Nil THEN TRUE
    ELSE /\ t[1].size = len(t[1].left) + len(t[1].right) + 1
         /\ SizesOK(t[1].left)
         /\ SizesOK(t[1].right)

RECURSIVE HeapOK(_)
HeapOK(t) ==
    IF t = Nil THEN TRUE
    ELSE /\ t[1].left # Nil => t[1].weight <= t[1].left[1].weight
         /\ t[1].right # Nil => t[1].weight <= t[1].right[1].weight
         /\ HeapOK(t[1].left)
         /\ HeapOK(t[1].right)

\* The items an iterator yields when next is called until the first None.
RECURSIVE Drain(_, _)
Drain(t, it) ==
    LET r == next(t, it) IN
    IF r[2] = Nil THEN <<>> ELSE <<r[2][1]>> \o Drain(t, r[1])

\* C1: in every map reached from the empty map by insert and remove calls,
\* immediately after insert(k, v) get(k) returns v, and immediately after
\* remove(k) get(k) is absent.
C1_GetAfterInsertRemove ==
    \A k \in Keys :
        /\ \A v \in Values, w \in Weights :
              get(insert(map, k, v, w)[1], k) = Some(v)
        /\ get(remove(map, k)[1], k) = Nil

\* A map left with two keys by the remove of a third.
C1_Witness ==
    /\ op.name = "remove"
    /\ Cardinality(inserted) = 3
    /\ len(map) = 2

\* C2: under insert calls alone, len() is the number of distinct keys
\* inserted; inserting a key already present overwrites its value, returns
\* the old value and leaves len() unchanged, and inserting a new key grows
\* len() by exactly one and returns None.
C2_LenCountsDistinctKeys ==
    /\ len(map) = Cardinality(inserted)
    /\ \A k \in Keys, v \in Values, w \in Weights :
         LET r == insert(map, k, v, w) IN
         IF k \in inserted
         THEN /\ len(r[1]) = len(map)
              /\ r[2] # Nil
              /\ r[2] = get(map, k)
              /\ get(r[1], k) = Some(v)
         ELSE /\ len(r[1]) = len(map) + 1
              /\ r[2] = Nil

\* A map of two keys or more, made by inserts.
C2_Witness ==
    /\ op.name = "insert"
    /\ len(map) >= 2
    /\ len(map) = Cardinality(inserted)

\* C3: from_iter on any sequence of pairs gives a tree holding each distinct
\* key once, with the value of the key's first occurrence, and len() is the
\* number of distinct keys.
C3_FromIterFirstWins ==
    op.name = "from_iter" =>
        /\ InOrder(map) = FirstWins(op.input)
        /\ len(map) = Cardinality(KeysOf(op.input))

\* C4: for every index i below len(), nth_kv(i) is present, num_lt of its
\* key is i and num_le of its key is i + 1; from len() on nth_kv(i) is absent.
C4_RankInverse ==
    \A i \in 0..(MaxSize + 1) :
        LET kv == nth_kv(map, i) IN
        IF i < len(map)
        THEN /\ Len(kv) = 1
             /\ num_lt(map, kv[1][1]) = i
             /\ num_le(map, kv[1][1]) = i + 1
        ELSE kv = Nil

\* A set of two keys or more built by from_sorted_iter from an input with a
\* repeated key.
C4_Witness ==
    /\ op.name = "from_sorted_iter"
    /\ len(map) >= 2
    /\ Len(op.input) > len(map)

\* C5: the calls of next on slice(start..end) return the pairs at ranks
\* start, start + 1, ..., min(end, len) - 1 in order and then None: nothing
\* when start >= min(end, len), and never None before that count.
C5_SliceYieldsRanks ==
    (iter # Nil /\ ~range[1].rev) =>
        LET io == InOrder(map)
            hi == Min2(range[1].end, Len(io))
            cnt == IF hi > range[1].start THEN hi - range[1].start ELSE 0
        IN  \A i \in 1..Len(out) :
                out[i] = IF i <= cnt THEN Some(io[range[1].start + i]) ELSE Nil

\* A slice of a set of two keys with a clamped end, drained to its None.
C5_Witness ==
    /\ iter # Nil
    /\ ~range[1].rev
    /\ range[1].start = 0
    /\ range[1].end > len(map)
    /\ len(map) = 2
    /\ Len(out) = 3
    /\ Last(out) = Nil

\* C6: the calls of next on rev_slice(start..end) return what slice(start..end)
\* yields, in reverse order, and then None; the first is the pair at rank
\* min(end, len) - 1.
C6_RevSliceReversesSlice ==
    (iter # Nil /\ range[1].rev) =>
        LET fwd == Drain(map, slice(map, range[1].start, range[1].end))
            cnt == Len(fwd)
            io == InOrder(map)
        IN  /\ \A i \in 1..Len(out) :
                  out[i] = IF i <= cnt THEN Some(fwd[cnt - i + 1]) ELSE Nil
            /\ (cnt > 0 /\ Len(out) >= 1) =>
                  out[1] = Some(io[Min2(range[1].end, Len(io))])

\* rev_slice(0..len) of a set of three keys, drained to its None.
C6_Witness ==
    /\ iter # Nil
    /\ range[1].rev
    /\ range[1].start = 0
    /\ range[1].end = len(map)
    /\ len(map) = 3
    /\ Len(out) = 4
    /\ Last(out) = Nil

\* C7: from_sorted_iter on a key-sorted input gives a tree whose in-order
\* sequence is the input with every run of equal keys collapsed to its first
\* pair; from_unique_sorted_iter on a sorted duplicate-free input gives the
\* input itself, whatever the weights.
C7_BuildersInOrder ==
    /\ op.name = "from_sorted_iter" => InOrder(map) = FirstWins(op.input)
    /\ op.name = "from_unique_sorted_iter" => InOrder(map) = op.input

\* The input keyed 1, 1, 2: the tree is the first and the third pair.
C7_Witness ==
    /\ op.name = "from_sorted_iter"
    /\ op.input = <<<<1, 1>>, <<1, 2>>, <<2, 3>>>>
    /\ InOrder(map) = <<<<1, 1>>, <<2, 3>>>>

\* C8: split_n(n) of a tree gives (A, B) with A the first min(n, len) pairs
\* of the tree's in-order sequence and B the rest; A is the whole tree and B
\* empty when n >= len, and A is empty when n = 0.
C8_SplitNByRank ==
    \A n \in 0..(MaxSize + 1) :
        LET io == InOrder(map)
            r == split_n(map, n)
            m == Min2(n, Len(io))
        IN  /\ InOrder(r[1]) = SubSeq(io, 1, m)
            /\ InOrder(r[2]) = SubSeq(io, m + 1, Len(io))
            /\ n >= Len(io) => (r[1] = map /\ r[2] = Nil)
            /\ n = 0 => r[1] = Nil

\* split_n(1) of a tree of three nodes: one node and the other two.
C8_Witness ==
    /\ op.name = "split_n"
    /\ len(map) = 1
    /\ len(aux) = 2

\* C9: every node's cached size is size(left) + size(right) + 1, so len()
\* is the number of nodes, in both trees the program holds.
C9_SizeInvariant ==
    /\ SizesOK(map)
    /\ SizesOK(aux)
    /\ len(map) = Len(InOrder(map))
    /\ len(aux) = Len(InOrder(aux))

\* Two non-empty halves of a split by key.
C9_Witness ==
    /\ op.name = "split_le"
    /\ len(map) = 2
    /\ len(aux) = 1

\* C10: no node's weight is above the weight of either of its children, in
\* both trees the program holds.
C10_HeapInvariant == HeapOK(map) /\ HeapOK(aux)

\* A merge of trees of different weights, the lighter root on top.
C10_Witness ==
    /\ op.name = "merge"
    /\ len(map) = 3
    /\ map[1].left # Nil
    /\ map[1].weight < map[1].left[1].weight

====
